---- MODULE Spec2Model ----
(* File Finder: the search thread (coordinator, worker pool, work queue)     *)
(* and the window that starts it, cancels it and receives its signals.       *)
(* Strings the program inspects (file names, the query, the extension       *)
(* input) are sequences of one-character strings; paths are plain strings.   *)
EXTENDS Integers, Sequences, FiniteSets, TLC

(***************************************************************************)
(* Bounds                                                                  *)
(***************************************************************************)
\* Size of the worker pool, min(32, 2 * cpu_count) in the program.
NumWorkers == 2
\* Number of searches one behaviour may start.
MaxSearches == 2
\* Longest text typed into the extension field.
MaxExtLen == 3
\* Calls of request_cancel made on one thread besides the Cancel button's.
MaxCancels == 2

Workers == 1..NumWorkers

None == "None"
NoList == <<>>
NoSet == {}

(***************************************************************************)
(* Text                                                                    *)
(***************************************************************************)
Alnum == {"r", "R", "t", "T", "m"}
Blank == {" "}

\* str.lower() on one character
LowerChar(c) == CASE c = "R" -> "r" [] c = "T" -> "t" [] OTHER -> c

\* str.lower()
Lower(s) == [i \in 1..Len(s) |-> LowerChar(s[i])]

\* the `in` operator on strings: target occurs in name as a substring
Contains(target, name) ==
    \E i \in 1..(Len(name) - Len(target) + 1) :
        SubSeq(name, i, i + Len(target) - 1) = target

\* str.lstrip(chars)
RECURSIVE LStrip(_, _)
LStrip(s, chars) ==
    IF s # <<>> /\ Head(s) \in chars THEN LStrip(Tail(s), chars) ELSE s

\* str.rstrip(chars)
RECURSIVE RStrip(_, _)
RStrip(s, chars) ==
    IF s # <<>> /\ s[Len(s)] \in chars
    THEN RStrip(SubSeq(s, 1, Len(s) - 1), chars)
    ELSE s

\* str.strip()
Strip(s) == RStrip(LStrip(s, Blank), Blank)

\* str.split(','): the pieces between commas, empty pieces included
RECURSIVE Split(_, _)
Split(s, acc) ==
    IF s = <<>> THEN <<acc>>
    ELSE IF Head(s) = "," THEN <<acc>> \o Split(Tail(s), <<>>)
    ELSE Split(Tail(s), Append(acc, Head(s)))

\* index of the last "." of s, 0 when there is none
LastDot(s) ==
    IF \E i \in 1..Len(s) : s[i] = "."
    THEN CHOOSE i \in 1..Len(s) : s[i] = "." /\ \A j \in (i+1)..Len(s) : s[j] # "."
    ELSE 0

\* os.path.splitext(name)[1]: from the last dot on, empty when the name has
\* no dot or only leading dots before it
SplitExt(name) ==
    LET d == LastDot(name) IN
    IF d = 0 \/ (\A j \in 1..(d-1) : name[j] = ".") THEN <<>>
    ELSE SubSeq(name, d, Len(name))

\* the elements of a sequence
Range(s) == {s[i] : i \in 1..Len(s)}

\* re.fullmatch(r'[A-Za-z0-9]+', p)
IsAlnumToken(p) == p # <<>> /\ \A i \in 1..Len(p) : p[i] \in Alnum

NonBlank(p) == Strip(p) # <<>>
NotAlnumToken(p) == ~IsAlnumToken(p)

\* parts = [p.strip().lstrip('.') for p in text.split(',') if p.strip()]
ParseParts(text) ==
    LET kept == SelectSeq(Split(text, <<>>), NonBlank)
    IN  [i \in 1..Len(kept) |-> LStrip(Strip(kept[i]), {"."})]

\* faulty variant: parse_extensions that reports only the first invalid part
parse_extensions_first_only(text) ==
    IF text = <<>> THEN [ok |-> TRUE, value |-> NoList, invalid |-> <<>>]
    ELSE LET parts == ParseParts(text)
             invalid == SelectSeq(parts, NotAlnumToken)
         IN  IF parts = <<>> THEN [ok |-> TRUE, value |-> NoList, invalid |-> <<>>]
             ELSE IF invalid # <<>>
                  THEN [ok |-> FALSE, value |-> NoList,
                        invalid |-> <<invalid[1]>>]
                  ELSE [ok |-> TRUE, value |-> parts, invalid |-> <<>>]

\* FileFinderApp.parse_extensions: the parts, None, or ValueError with the
\* invalid parts.  The program only ever tests these optional collections for
\* truth, where None and the empty collection agree, so None is written as
\* the empty list (NoList) or the empty set (NoSet).
parse_extensions(text) ==
    IF text = <<>> THEN [ok |-> TRUE, value |-> NoList, invalid |-> <<>>]
    ELSE LET parts == ParseParts(text)
             invalid == SelectSeq(parts, NotAlnumToken)
         IN  IF parts = <<>> THEN [ok |-> TRUE, value |-> NoList, invalid |-> <<>>]
             ELSE IF invalid # <<>>
                  THEN [ok |-> FALSE, value |-> NoList, invalid |-> invalid]
                  ELSE [ok |-> TRUE, value |-> parts, invalid |-> <<>>]

\* faulty variant: __init__ that keeps the letter case of the extensions
InitAllowedExts_keeps_case(exts) ==
    IF exts = NoList THEN NoSet
    ELSE {LStrip(Strip(exts[i]), {"."}) :
              i \in {j \in 1..Len(exts) : exts[j] # <<>> /\ Strip(exts[j]) # <<>>}}

\* FileSearchThread.__init__: allowed_exts as a set of normalised extensions,
\* or None
InitAllowedExts(exts) ==
    IF exts = NoList THEN NoSet
    ELSE {Lower(LStrip(Strip(exts[i]), {"."})) :
              i \in {j \in 1..Len(exts) : exts[j] # <<>> /\ Strip(exts[j]) # <<>>}}

(***************************************************************************)
(* The file system the searches run over                                   *)
(***************************************************************************)
Dir(p, n) == [path |-> p, name |-> n, kind |-> "dir"]
File(p, n) == [path |-> p, name |-> n, kind |-> "file"]
Symlink(p, n) == [path |-> p, name |-> n, kind |-> "symlink"]
\* an entry whose is_dir() raises OSError
Broken(p, n) == [path |-> p, name |-> n, kind |-> "broken"]

\* os.scandir(dirpath): the entries of each listable directory
Listing(d) ==
    CASE d = "A"   -> << Dir("A/x", <<"x">>),
                         File("A/r.T", <<"r", ".", "T">>) >>
      [] d = "A/x" -> << File("A/x/Rm", <<"R", "m">>),
                         Symlink("A/x/r", <<"r">>),
                         Broken("A/x/b", <<"b">>) >>
      [] OTHER     -> << >>

\* the directories that can be listed, and everything in them
Dirs == {"A", "A/x"}
AllEntries == UNION {Range(Listing(d)) : d \in Dirs}

\* what os.scandir(dirpath) does: "ok", or the exception it raises (Z is
\* unreadable, F is the path of a regular file)
DirAccess(d) ==
    CASE d \in Dirs -> "ok"
      [] d = "Z"            -> "PermissionError"
      [] d = "F"            -> "NotADirectoryError"
      [] OTHER              -> "FileNotFoundError"
\* the exceptions the worker catches around os.scandir
Skipped == {"PermissionError", "FileNotFoundError"}

\* dir_queue.task_done(): one task less, or ValueError (swallowed by the
\* worker) and no change when none is left
TaskDone(u) == IF u - 1 < 0 THEN u ELSE u - 1

\* what the user can type and tick
QueryTexts == { <<>>, <<" ">>, <<"r">>, <<" ", "R">> }
ExtAlphabet == {"T", ".", ",", " ", "-"}
RECURSIVE TextsUpTo(_)
TextsUpTo(n) ==
    IF n = 0 THEN { <<>> }
    ELSE LET shorter == TextsUpTo(n - 1)
         IN  shorter \cup {Append(s, c) : s \in shorter, c \in ExtAlphabet}
ExtTexts == TextsUpTo(MaxExtLen)
\* extension inputs that are spelled in both letter cases
FilterAlphabet == {"t", "T", ".", ",", " "}
RECURSIVE SpellingsUpTo(_)
SpellingsUpTo(n) ==
    IF n = 0 THEN { <<>> }
    ELSE LET shorter == SpellingsUpTo(n - 1)
         IN  shorter \cup {Append(s, c) : s \in shorter, c \in FilterAlphabet}
FilterTexts == SpellingsUpTo(MaxExtLen)
\* the extension inputs of the searches whose traversal is explored: blank,
\* one filter, one rejected input
ExtChoices == { <<>>, <<".", "T">>, <<"T", ",", "-">> }
RootChoices == { <<"A">>, <<"Z">>, <<"A", "Z">>, <<"F", "A">> }

\* parse_extensions on each text the field can hold, computed once
Parsed == [text \in ExtTexts \cup FilterTexts |-> parse_extensions(text)]

(***************************************************************************)
(* State                                                                   *)
(***************************************************************************)
VARIABLES
    \* FileFinderApp
    search_button,   \* the Search button is enabled
    cancel_button,   \* the Cancel button is enabled
    results_list,    \* the paths shown, in the order they were added
    result_count,    \* _result_count
    status_label,    \* what the status line says
    msgbox,          \* the invalid tokens the warning dialog on screen lists
    events,          \* signals posted to the window's thread, not yet handled
    nsearch,         \* number of FileSearchThread objects created so far
    \* FileSearchThread (search_thread, when nsearch > 0)
    filename, case_sensitive, allowed_exts, search_path,
    stop_event,      \* _stop_event is set
    tpc,             \* where run() is
    ti,              \* loop counter of run(): workers submitted, sentinels put
    dir_queue,       \* queue.Queue of directory paths and None sentinels
    unfinished,      \* dir_queue.unfinished_tasks
    wpc, wdir, widx, \* each worker: where it is, the listing it has open
    \* history, read by the properties only
    emitted,         \* signals emitted by the current thread, in order,
                     \* each with its emitter (a worker, 0 for run() itself)
                     \* and whether the stop event was set by then
    observed,        \* the worker has read the stop event as set
    cancel_calls,    \* calls of request_cancel on the current thread
    click,           \* how the latest call of start_search ended
    late             \* directories a running worker has dequeued with the
                     \* stop event set

appVars == <<search_button, cancel_button, results_list, result_count,
             status_label, msgbox, events, nsearch>>
reqVars == <<filename, case_sensitive, allowed_exts, search_path>>
runVars == <<tpc, ti, dir_queue, unfinished, wpc, wdir, widx>>
histVars == <<emitted, observed, cancel_calls, click, late>>
vars == <<appVars, reqVars, stop_event, runVars, histVars>>

(***************************************************************************)
(* Matching (FileSearchThread.run and its worker)                          *)
(***************************************************************************)
\* target = self.filename if self.case_sensitive else self.filename.lower()
Target(fname, cs) == IF cs THEN fname ELSE Lower(fname)

\* name_to_check = entry.name if self.case_sensitive else entry.name.lower()
NameToCheck(name, cs) == IF cs THEN name ELSE Lower(name)

\* ext = os.path.splitext(entry.name)[1].lower().lstrip('.')
EntryExt(name) == LStrip(Lower(SplitExt(name)), {"."})

\* faulty variant: a worker that never applies the extension filter
PassesFilter_ignored(name, exts) == TRUE

\* the extension filter lets the file through
PassesFilter(name, exts) ==
    IF exts # NoSet THEN EntryExt(name) \in exts ELSE TRUE

\* if target and (target in name_to_check)
NameMatches(name, fname, cs) ==
    /\ Target(fname, cs) # <<>>
    /\ Contains(Target(fname, cs), NameToCheck(name, cs))

\* the worker emits found_file for this directory entry
EmitsEntry(e, fname, cs, exts) ==
    /\ e.kind = "file"
    /\ NameMatches(e.name, fname, cs)
    /\ PassesFilter(e.name, exts)

\* faulty variant: is_dir() that follows symbolic links
EnqueuesEntry_follows(e) == e.kind \in {"dir", "symlink"}

\* if entry.is_dir(follow_symlinks=False): only a real directory is queued
EnqueuesEntry(e) == e.kind = "dir"

(***************************************************************************)
(* Signals                                                                 *)
(***************************************************************************)
\* Signal.emit from a thread that is not the window's: the call is posted to
\* the window's event queue (a queued connection)
Post(sig, arg, by) ==
    /\ events' = Append(events, [sig |-> sig, arg |-> arg, tid |-> nsearch])
    /\ emitted' = Append(emitted, [sig |-> sig, arg |-> arg, by |-> by,
                                   stop |-> stop_event])

ErrorText == "Error: can't start new thread"

(***************************************************************************)
(* Init                                                                    *)
(***************************************************************************)
Init ==
    /\ search_button = TRUE
    /\ cancel_button = FALSE
    /\ results_list = <<>>
    /\ result_count = 0
    /\ status_label = [text |-> "", n |-> 0]
    /\ msgbox = NoList
    /\ events = <<>>
    /\ nsearch = 0
    /\ filename = <<>>
    /\ case_sensitive = FALSE
    /\ allowed_exts = NoSet
    /\ search_path = <<>>
    /\ stop_event = FALSE
    /\ tpc = "none"
    /\ ti = 0
    /\ dir_queue = <<>>
    /\ unfinished = 0
    /\ wpc = [w \in Workers |-> "unsubmitted"]
    /\ wdir = [w \in Workers |-> None]
    /\ widx = [w \in Workers |-> 0]
    /\ emitted = <<>>
    /\ observed = [w \in Workers |-> FALSE]
    /\ cancel_calls = 0
    /\ click = "none"
    /\ late = [w \in Workers |-> 0]

(***************************************************************************)
(* FileFinderApp                                                           *)
(***************************************************************************)
\* the thread object start_search builds and starts
NewThread(fname, cs, exts, roots) ==
    /\ nsearch' = nsearch + 1
    /\ filename' = fname
    /\ case_sensitive' = cs
    /\ allowed_exts' = InitAllowedExts(exts)
    /\ search_path' = roots
    /\ stop_event' = FALSE
    /\ tpc' = "start"
    /\ ti' = 0
    /\ dir_queue' = <<>>
    /\ unfinished' = 0
    /\ wpc' = [w \in Workers |-> "unsubmitted"]
    /\ wdir' = [w \in Workers |-> None]
    /\ widx' = [w \in Workers |-> 0]
    /\ emitted' = <<>>
    /\ observed' = [w \in Workers |-> FALSE]
    /\ cancel_calls' = 0
    /\ late' = [w \in Workers |-> 0]

\* faulty variant: start_search that goes on without a query
HasQuery_always(fname) == TRUE

\* if not filename: return
HasQuery(fname) == fname # <<>>

\* FileFinderApp.start_search, on a click of the Search button
start_search(query, cs, ext, roots) ==
    /\ search_button
    /\ msgbox = NoList
    /\ nsearch < MaxSearches
    /\ LET fname == Strip(query)
           ext_text == Strip(ext)
           parsed == IF ext_text # <<>> THEN Parsed[ext_text]
                     ELSE [ok |-> TRUE, value |-> NoList, invalid |-> <<>>]
       IN  IF ~HasQuery(fname)
           THEN /\ click' = "ignored"
                /\ UNCHANGED <<appVars, reqVars, stop_event, runVars,
                               emitted, observed, cancel_calls, late>>
           ELSE IF ~parsed.ok
           THEN /\ msgbox' = parsed.invalid
                /\ click' = "rejected"
                /\ UNCHANGED <<search_button, cancel_button, results_list,
                               result_count, status_label, events, nsearch,
                               reqVars, stop_event, runVars, emitted,
                               observed, cancel_calls, late>>
           ELSE /\ results_list' = <<>>
                /\ search_button' = FALSE
                /\ result_count' = 0
                /\ status_label' = [text |-> "Searching...", n |-> 0]
                /\ NewThread(fname, cs, parsed.value, roots)
                /\ click' = "started"
                /\ cancel_button' = TRUE
                /\ UNCHANGED <<msgbox, events>>

\* the user closes the "Invalid extensions" dialog and start_search returns
dismiss_warning ==
    /\ msgbox # NoList
    /\ msgbox' = NoList
    /\ UNCHANGED <<search_button, cancel_button, results_list, result_count,
                   status_label, events, nsearch, reqVars, stop_event,
                   runVars, histVars>>

\* faulty variant: request_cancel that flips the event instead of setting it
request_cancel_toggles ==
    /\ stop_event' = ~stop_event
    /\ cancel_calls' = cancel_calls + 1

\* FileSearchThread.request_cancel
request_cancel ==
    /\ stop_event' = TRUE
    /\ cancel_calls' = cancel_calls + 1

\* faulty variant: cancel_search that gives the Search button back at once
cancel_search_reenables ==
    /\ cancel_button
    /\ msgbox = NoList
    /\ nsearch > 0
    /\ request_cancel
    /\ status_label' = [text |-> "Cancelling...", n |-> 0]
    /\ cancel_button' = FALSE
    /\ search_button' = TRUE
    /\ UNCHANGED <<results_list, result_count, msgbox, events, nsearch,
                   reqVars, runVars, emitted, observed, click, late>>

\* FileFinderApp.cancel_search, on a click of the Cancel button
cancel_search ==
    /\ cancel_button
    /\ msgbox = NoList
    /\ IF nsearch > 0
       THEN /\ request_cancel
            /\ status_label' = [text |-> "Cancelling...", n |-> 0]
            /\ cancel_button' = FALSE
       ELSE UNCHANGED <<stop_event, cancel_calls, status_label, cancel_button>>
    /\ UNCHANGED <<search_button, results_list, result_count, msgbox, events,
                   nsearch, reqVars, runVars, emitted, observed, click,
                   late>>

\* FileFinderApp.add_result
add_result(filepath) ==
    /\ results_list' = Append(results_list, filepath)
    /\ result_count' = result_count + 1
    /\ status_label' = [text |-> "Found:", n |-> result_count + 1]
    /\ UNCHANGED <<search_button, cancel_button>>

\* FileFinderApp.on_search_finished
on_search_finished ==
    /\ search_button' = TRUE
    /\ cancel_button' = FALSE
    /\ status_label' = [text |-> "Search finished:", n |-> result_count]
    /\ UNCHANGED <<results_list, result_count>>

\* the window's event loop hands the oldest posted signal to its slot
deliver ==
    /\ events # <<>>
    /\ events' = Tail(events)
    /\ IF Head(events).sig = "found_file"
       THEN add_result(Head(events).arg)
       ELSE on_search_finished
    /\ UNCHANGED <<msgbox, nsearch, reqVars, stop_event, runVars, histVars>>

(***************************************************************************)
(* FileSearchThread.run: the coordinator                                   *)
(***************************************************************************)
Active(w) == wpc[w] \in {"check", "get", "scan"}

\* run() up to the executor: the queue is made and the roots are put on it
run_begin ==
    /\ tpc = "start"
    /\ dir_queue' = search_path
    /\ unfinished' = Len(search_path)
    /\ tpc' = "submit"
    /\ ti' = 0
    /\ UNCHANGED <<appVars, reqVars, stop_event, wpc, wdir, widx, histVars>>

\* executor.submit(worker): a new pool thread starts running worker()
submit_worker ==
    /\ tpc = "submit"
    /\ wpc' = [wpc EXCEPT ![ti + 1] = "check"]
    /\ ti' = ti + 1
    /\ tpc' = IF ti + 1 = NumWorkers THEN "poll" ELSE "submit"
    /\ UNCHANGED <<appVars, reqVars, stop_event, dir_queue, unfinished,
                   wdir, widx, histVars>>

\* executor.submit(worker) raises: the work item is queued in the executor
\* but its thread cannot be started; run() leaves the with block, whose exit
\* waits for the pool
submit_fails ==
    /\ tpc = "submit"
    /\ wpc' = [wpc EXCEPT ![ti + 1] = "queued"]
    /\ tpc' = "shutdown"
    /\ UNCHANGED <<appVars, reqVars, stop_event, ti, dir_queue, unfinished,
                   wdir, widx, histVars>>

\* faulty variant: an idle loop that never looks at the stop event
poll_ignores_stop ==
    /\ tpc = "poll"
    /\ dir_queue = <<>>
    /\ tpc' = "recheck"
    /\ UNCHANGED <<appVars, reqVars, stop_event, ti, dir_queue, unfinished,
                   wpc, wdir, widx, histVars>>

\* the idle loop: stop requested, or the queue looks empty
poll ==
    /\ tpc = "poll"
    /\ stop_event \/ dir_queue = <<>>
    /\ IF stop_event
       THEN tpc' = "sentinels" /\ ti' = 0
       ELSE tpc' = "recheck" /\ ti' = ti
    /\ UNCHANGED <<appVars, reqVars, stop_event, dir_queue, unfinished,
                   wpc, wdir, widx, histVars>>

\* faulty variant: the re-check concludes whatever the queue holds
recheck_concludes ==
    /\ tpc = "recheck"
    /\ tpc' = "sentinels" /\ ti' = 0
    /\ UNCHANGED <<appVars, reqVars, stop_event, dir_queue, unfinished,
                   wpc, wdir, widx, histVars>>

\* the idle loop after time.sleep(0.5): empty again means done
recheck ==
    /\ tpc = "recheck"
    /\ IF dir_queue = <<>>
       THEN tpc' = "sentinels" /\ ti' = 0
       ELSE tpc' = "poll" /\ ti' = ti
    /\ UNCHANGED <<appVars, reqVars, stop_event, dir_queue, unfinished,
                   wpc, wdir, widx, histVars>>

\* faulty variant: the loop ends one sentinel short
put_sentinel_one_short ==
    /\ tpc = "sentinels"
    /\ dir_queue' = Append(dir_queue, None)
    /\ unfinished' = unfinished + 1
    /\ ti' = ti + 1
    /\ tpc' = IF ti + 1 >= NumWorkers - 1 THEN "wait" ELSE "sentinels"
    /\ UNCHANGED <<appVars, reqVars, stop_event, wpc, wdir, widx, histVars>>

\* for _ in range(max_workers): dir_queue.put(None)
put_sentinel ==
    /\ tpc = "sentinels"
    /\ dir_queue' = Append(dir_queue, None)
    /\ unfinished' = unfinished + 1
    /\ ti' = ti + 1
    /\ tpc' = IF ti + 1 = NumWorkers THEN "wait" ELSE "sentinels"
    /\ UNCHANGED <<appVars, reqVars, stop_event, wpc, wdir, widx, histVars>>

\* faulty variant: run() goes on to its finally without waiting for the workers
wait_workers_skipped ==
    /\ tpc = "wait"
    /\ tpc' = "finally"
    /\ UNCHANGED <<appVars, reqVars, stop_event, ti, dir_queue, unfinished,
                   wpc, wdir, widx, histVars>>

\* concurrent.futures.wait(futures) and the exit of the with block
wait_workers ==
    /\ tpc = "wait"
    /\ \A w \in Workers : wpc[w] = "done"
    /\ tpc' = "finally"
    /\ UNCHANGED <<appVars, reqVars, stop_event, ti, dir_queue, unfinished,
                   wpc, wdir, widx, histVars>>

\* a pool thread whose worker() returned takes the work item left queued
pool_pickup(w) ==
    /\ tpc = "shutdown"
    /\ wpc[w] = "queued"
    /\ \E v \in Workers : wpc[v] = "done"
    /\ wpc' = [wpc EXCEPT ![w] = "check"]
    /\ UNCHANGED <<appVars, reqVars, stop_event, tpc, ti, dir_queue,
                   unfinished, wdir, widx, histVars>>

\* the with block's exit after an exception: executor.shutdown(wait=True)
\* returns when every pool thread has ended
shutdown_pool ==
    /\ tpc = "shutdown"
    /\ \A w \in Workers : ~Active(w)
    /\ \A w \in Workers : wpc[w] = "queued" => ti = 0
    /\ tpc' = "except"
    /\ UNCHANGED <<appVars, reqVars, stop_event, ti, dir_queue, unfinished,
                   wpc, wdir, widx, histVars>>

\* except Exception as e: self.found_file.emit(f"Error: {e}")
run_except ==
    /\ tpc = "except"
    /\ Post("found_file", ErrorText, 0)
    /\ tpc' = "finally"
    /\ UNCHANGED <<search_button, cancel_button, results_list, result_count,
                   status_label, msgbox, nsearch, reqVars, stop_event, ti,
                   dir_queue, unfinished, wpc, wdir, widx, observed,
                   cancel_calls, click, late>>

\* finally: self.finished.emit()
run_finally ==
    /\ tpc = "finally"
    /\ Post("finished", None, 0)
    /\ tpc' = "done"
    /\ UNCHANGED <<search_button, cancel_button, results_list, result_count,
                   status_label, msgbox, nsearch, reqVars, stop_event, ti,
                   dir_queue, unfinished, wpc, wdir, widx, observed,
                   cancel_calls, click, late>>

(***************************************************************************)
(* FileSearchThread.run: worker()                                          *)
(***************************************************************************)
\* faulty variant: a worker that sees the stop event but first drains the queue
worker_check_drains(w) ==
    /\ wpc[w] = "check"
    /\ wpc' = [wpc EXCEPT ![w] = IF stop_event /\ dir_queue = <<>>
                                 THEN "done" ELSE "get"]
    /\ observed' = [observed EXCEPT ![w] = stop_event]
    /\ late' = [late EXCEPT ![w] = IF wpc'[w] = "done" THEN 0 ELSE @]
    /\ UNCHANGED <<appVars, reqVars, stop_event, tpc, ti, dir_queue,
                   unfinished, wdir, widx, emitted, cancel_calls, click>>

\* if self._stop_event.is_set(): break
worker_check(w) ==
    /\ wpc[w] = "check"
    /\ wpc' = [wpc EXCEPT ![w] = IF stop_event THEN "done" ELSE "get"]
    /\ observed' = [observed EXCEPT ![w] = stop_event]
    /\ late' = [late EXCEPT ![w] = IF wpc'[w] = "done" THEN 0 ELSE @]
    /\ UNCHANGED <<appVars, reqVars, stop_event, tpc, ti, dir_queue,
                   unfinished, wdir, widx, emitted, cancel_calls, click>>

\* where worker() goes after the except Exception clause of its loop body
\* and after a listing: back to the top of while True
AfterUnexpected_exits == "done"
AfterUnexpected == "check"
AfterListing_skips_check == "get"
AfterListing == "check"
\* where worker() goes on a sentinel: task_done() and break
AfterSentinel_continues == "check"
AfterSentinel == "done"

\* dir_queue.get(timeout=0.5) returns an item: a sentinel ends the worker,
\* a directory is opened with os.scandir; PermissionError and
\* FileNotFoundError are passed over, any other exception leaves through the
\* finally (task_done) to except Exception (task_done again)
worker_get(w) ==
    /\ wpc[w] = "get"
    /\ dir_queue # <<>>
    /\ dir_queue' = Tail(dir_queue)
    /\ LET dirpath == Head(dir_queue)
           access == IF dirpath = None THEN "ok" ELSE DirAccess(dirpath)
           unexpected == access \notin (Skipped \cup {"ok"})
       IN  /\ IF dirpath = None
              THEN /\ unfinished' = TaskDone(unfinished)
                   /\ wpc' = [wpc EXCEPT ![w] = AfterSentinel]
                   /\ UNCHANGED <<wdir, widx>>
              ELSE IF access \in Skipped
              THEN /\ unfinished' = TaskDone(unfinished)
                   /\ wpc' = [wpc EXCEPT ![w] = AfterListing]
                   /\ UNCHANGED <<wdir, widx>>
              ELSE IF unexpected
              THEN /\ unfinished' = TaskDone(TaskDone(unfinished))
                   /\ wpc' = [wpc EXCEPT ![w] = AfterUnexpected]
                   /\ UNCHANGED <<wdir, widx>>
              ELSE IF Listing(dirpath) = <<>>
              THEN /\ unfinished' = TaskDone(unfinished)
                   /\ wpc' = [wpc EXCEPT ![w] = AfterListing]
                   /\ UNCHANGED <<wdir, widx>>
              ELSE /\ wpc' = [wpc EXCEPT ![w] = "scan"]
                   /\ wdir' = [wdir EXCEPT ![w] = dirpath]
                   /\ widx' = [widx EXCEPT ![w] = 1]
                   /\ UNCHANGED unfinished
           /\ late' = [late EXCEPT ![w] =
                           IF wpc'[w] = "done" THEN 0
                           ELSE @ + (IF stop_event THEN 1 ELSE 0)]
    /\ UNCHANGED <<appVars, reqVars, stop_event, tpc, ti, emitted, observed,
                   cancel_calls, click>>

\* dir_queue.get(timeout=0.5) raises queue.Empty
worker_timeout(w) ==
    /\ wpc[w] = "get"
    /\ dir_queue = <<>>
    /\ wpc' = [wpc EXCEPT ![w] = "check"]
    /\ UNCHANGED <<appVars, reqVars, stop_event, tpc, ti, dir_queue,
                   unfinished, wdir, widx, histVars>>

\* one entry of the open listing; after the last one, task_done().  An
\* entry whose classification raises anything but PermissionError ends the
\* listing: finally (task_done), then except Exception (task_done again)
worker_scan(w) ==
    /\ wpc[w] = "scan"
    /\ LET entries == Listing(wdir[w])
           e == entries[widx[w]]
           raises == e.kind = "broken"
           last == widx[w] = Len(entries)
           put == EnqueuesEntry(e)
           queued == unfinished + (IF put THEN 1 ELSE 0)
       IN  /\ dir_queue' = IF put THEN Append(dir_queue, e.path) ELSE dir_queue
           /\ unfinished' = IF raises THEN TaskDone(TaskDone(queued))
                             ELSE IF last THEN TaskDone(queued)
                             ELSE queued
           /\ IF ~put /\ EmitsEntry(e, filename, case_sensitive, allowed_exts)
              THEN Post("found_file", e.path, w)
              ELSE UNCHANGED <<events, emitted>>
           /\ IF raises \/ last
              THEN /\ wpc' = [wpc EXCEPT ![w] = IF raises THEN AfterUnexpected
                                                ELSE AfterListing]
                   /\ wdir' = [wdir EXCEPT ![w] = None]
                   /\ widx' = [widx EXCEPT ![w] = 0]
              ELSE /\ widx' = [widx EXCEPT ![w] = widx[w] + 1]
                   /\ UNCHANGED <<wpc, wdir>>
           /\ late' = [late EXCEPT ![w] = IF wpc'[w] = "done" THEN 0 ELSE @]
    /\ UNCHANGED <<search_button, cancel_button, results_list, result_count,
                   status_label, msgbox, nsearch, reqVars, stop_event, tpc,
                   ti, observed, cancel_calls, click>>

(***************************************************************************)
(* The program                                                             *)
(***************************************************************************)
\* every step of the program but the click on Search
Background ==
    \/ dismiss_warning
    \/ cancel_search
    \/ deliver
    \/ run_begin
    \/ submit_worker
    \/ submit_fails
    \/ poll
    \/ recheck
    \/ put_sentinel
    \/ wait_workers
    \/ shutdown_pool
    \/ run_except
    \/ run_finally
    \/ \E w \in Workers :
          \/ pool_pickup(w)
          \/ worker_check(w)
          \/ worker_get(w)
          \/ worker_timeout(w)
          \/ worker_scan(w)

Next ==
    \/ \E query \in QueryTexts, cs \in BOOLEAN, ext \in ExtChoices,
          roots \in RootChoices : start_search(query, cs, ext, roots)
    \/ Background

Spec == Init /\ [][Next]_vars

\* the same program with every extension input up to MaxExtLen characters,
\* searching one root, the query typed or left blank
ExtQueries == { <<"r">>, <<" ">> }
ExtNext ==
    \/ \E query \in ExtQueries, ext \in ExtTexts :
          start_search(query, FALSE, ext, <<"A">>)
    \/ Background

ExtSpec == Init /\ [][ExtNext]_vars

\* the same program with every spelling of an extension filter up to
\* MaxExtLen characters
FilterNext ==
    \/ \E ext \in FilterTexts : start_search(<<"r">>, FALSE, ext, <<"A">>)
    \/ Background

FilterSpec == Init /\ [][FilterNext]_vars

\* a caller holding the thread calls request_cancel at any moment
api_cancel ==
    /\ nsearch > 0
    /\ cancel_calls < MaxCancels
    /\ request_cancel
    /\ UNCHANGED <<appVars, reqVars, runVars, emitted, observed, click,
                   late>>

\* the program with such a caller, searching for one query
ApiNext ==
    \/ \E ext \in ExtChoices, roots \in RootChoices :
          start_search(<<"r">>, FALSE, ext, roots)
    \/ api_cancel
    \/ Background

ApiSpec == Init /\ [][ApiNext]_vars

(***************************************************************************)
(* Scheduling: the operating system runs every thread that can take a step *)
(* (the coordinator, each pool thread, the window's event loop); nothing   *)
(* makes the user click.                                                   *)
(***************************************************************************)
Coordinator ==
    \/ run_begin
    \/ submit_worker
    \/ poll
    \/ recheck
    \/ put_sentinel
    \/ wait_workers
    \/ shutdown_pool
    \/ run_except
    \/ run_finally

PoolThread(w) ==
    \/ pool_pickup(w)
    \/ worker_check(w)
    \/ worker_get(w)
    \/ worker_timeout(w)
    \/ worker_scan(w)

Fairness ==
    /\ WF_vars(Coordinator)
    /\ WF_vars(deliver)
    /\ \A w \in Workers : WF_vars(PoolThread(w))

FairSpec == Init /\ [][Next]_vars /\ Fairness

(***************************************************************************)
(* What the properties read                                                *)
(***************************************************************************)
\* positions of the current thread's emissions of signal sig
Emissions(sig) == {i \in 1..Len(emitted) : emitted[i].sig = sig}
FinishedCount == Cardinality(Emissions("finished"))
\* run() has been entered and has not returned
Running == tpc \notin {"none", "done"}

\* positions of the current thread's emissions made by emitter by
EmittedBy(by) == {i \in 1..Len(emitted) : emitted[i].by = by}
\* the arguments of the found_file emissions, in order
MatchArgs ==
    LET idx == SelectSeq([i \in 1..Len(emitted) |-> i],
                         LAMBDA i : emitted[i].sig = "found_file")
    IN  [k \in 1..Len(idx) |-> emitted[idx[k]].arg]
\* the window has handled the current thread's finished signal
FinishedHandled ==
    /\ FinishedCount = 1
    /\ \A i \in 1..Len(events) : events[i].sig # "finished"
\* the pool could not be started: executor.submit raised
PoolFailed ==
    \/ tpc \in {"shutdown", "except"}
    \/ \E i \in 1..Len(emitted) : emitted[i].arg = ErrorText
\* a directory, not a sentinel, is waiting in the queue
DirectoryQueued == \E i \in 1..Len(dir_queue) : dir_queue[i] # None

(***************************************************************************)
(* C1: every started search emits the terminal finished signal exactly     *)
(* once, never zero times and never more than once, however it ends.       *)
(***************************************************************************)
C1_ExactlyOneFinished ==
    /\ [](FinishedCount <= 1)
    /\ (tpc = "start") ~> (FinishedCount = 1)

(***************************************************************************)
(* C2: every found_file of a search is emitted, and handed to the window,  *)
(* before that search's finished signal; nothing follows finished, also    *)
(* when a worker was in the middle of a listing at the time of the cancel. *)
(***************************************************************************)
C2_MatchesBeforeFinished ==
    /\ \A i \in 1..Len(emitted) :
          emitted[i].sig = "finished" => i = Len(emitted)
    /\ \A i \in 1..Len(events) :
          events[i].sig = "finished" => i = Len(events)
    /\ FinishedHandled => results_list = MatchArgs

\* a match a worker emitted after the cancel has been delivered, and then
\* the finished signal
C2_Witness ==
    /\ FinishedHandled
    /\ \E i \in 1..Len(emitted) :
          /\ emitted[i].sig = "found_file"
          /\ emitted[i].by \in Workers
          /\ emitted[i].stop
          /\ results_list[i] = emitted[i].arg

(***************************************************************************)
(* C3: a worker that has read the stop event as set at its checkpoint has  *)
(* exited: it takes nothing more from the queue, lists nothing and emits   *)
(* nothing from then on.                                                   *)
(***************************************************************************)
C3_NoEmitAfterObserved ==
    [][\A w \in Workers :
          (observed[w] /\ nsearch' = nsearch) =>
              /\ wpc[w] = "done"
              /\ wpc'[w] = "done"
              /\ wdir'[w] = wdir[w]
              /\ EmittedBy(w)' = EmittedBy(w)]_vars

\* a worker that had emitted a match observed the cancel while a directory
\* was still waiting in the queue
C3_Witness ==
    \E w \in Workers :
        observed[w] /\ EmittedBy(w) # {} /\ DirectoryQueued

(***************************************************************************)
(* C4: once cancel has been requested on a running search, fair scheduling *)
(* brings the search to completion: every worker has exited and exactly    *)
(* one finished signal has been emitted, whatever is left in the queue.    *)
(***************************************************************************)
C4_CancelLeadsToCompletion ==
    (stop_event /\ Running) ~>
        (tpc = "done" /\ FinishedCount = 1 /\ \A w \in Workers : ~Active(w))

\* a cancelled search has completed with a directory left unscanned
C4_Witness ==
    stop_event /\ tpc = "done" /\ FinishedCount = 1 /\ DirectoryQueued

(***************************************************************************)
(* C5: request_cancel is idempotent and harmless after completion: a call  *)
(* on a thread whose stop event is already set changes nothing the search  *)
(* or its event stream depends on, and once finished has been emitted no   *)
(* call (nor anything else) adds a signal of that thread.                  *)
(***************************************************************************)
C5_CancelIdempotent ==
    [][/\ (cancel_calls' > cancel_calls /\ stop_event) =>
              UNCHANGED <<stop_event, reqVars, runVars, events, emitted,
                          observed, results_list, result_count,
                          search_button, nsearch>>
       /\ (FinishedCount = 1 /\ nsearch' = nsearch) => emitted' = emitted]_vars

\* the search ended uncancelled and request_cancel was then called twice
C5_Witness ==
    /\ cancel_calls >= 2
    /\ stop_event
    /\ FinishedCount = 1
    /\ ~emitted[Len(emitted)].stop
    /\ Len(emitted) > 1

(***************************************************************************)
(* The claims' own words for a match                                       *)
(***************************************************************************)
\* the name contains the query: compared as they are when case sensitive,
\* both lowercased otherwise
ClaimNameContains(name, query, cs) ==
    IF cs THEN Contains(query, name) ELSE Contains(Lower(query), Lower(name))
\* the text after the last dot of the name, lowercased; none without a dot
ClaimExt(name) ==
    IF LastDot(name) = 0 THEN <<>>
    ELSE Lower(SubSeq(name, LastDot(name) + 1, Len(name)))
\* the directory entry with this path
EntryAt(path) == CHOOSE e \in AllEntries : e.path = path
IsEntryPath(path) == \E e \in AllEntries : e.path = path
\* the files below the roots that the request asks for
ExpectedMatches(roots, query, cs, exts) ==
    {e.path : e \in {f \in AllEntries :
        /\ "A" \in Range(roots)
        /\ f.kind = "file"
        /\ ClaimNameContains(f.name, query, cs)
        /\ (exts # NoSet => ClaimExt(f.name) \in exts)}}
\* the entry worker w is looking at
CurrentEntry(w) == Listing(wdir[w])[widx[w]]

(***************************************************************************)
(* C6: everything emitted on found_file is the path of a file whose name   *)
(* contains the query under the configured case sensitivity; nothing else  *)
(* is emitted on that signal.                                              *)
(***************************************************************************)
C6_OnlyMatchingFilesEmitted ==
    \A i \in Emissions("found_file") :
        /\ IsEntryPath(emitted[i].arg)
        /\ EntryAt(emitted[i].arg).kind = "file"
        /\ ClaimNameContains(EntryAt(emitted[i].arg).name, filename,
                             case_sensitive)

ClaimTokens(text) ==
    LET pieces == SelectSeq(Split(Strip(text), <<>>), NonBlank)
    IN  [i \in 1..Len(pieces) |-> LStrip(Strip(pieces[i]), {"."})]
OffendingTokens(text) ==
    SelectSeq(ClaimTokens(text),
              LAMBDA t : t = <<>> \/ \E i \in 1..Len(t) : t[i] \notin Alnum)
Offending == [text \in ExtTexts |-> OffendingTokens(text)]
\* what a rejected click must leave behind
Rejected(ext) ==
    /\ msgbox' = Offending[ext]
    /\ UNCHANGED <<nsearch, reqVars, stop_event, runVars, emitted, observed,
                   cancel_calls, events, results_list, result_count,
                   search_button, cancel_button, status_label>>

(***************************************************************************)
(* C8 as stated, for every click whatever the query: an extension input    *)
(* with a token that is not purely alphanumeric (after trimming and        *)
(* removing its dot prefix) makes start_search report every offending      *)
(* token and start nothing.                                                *)
(***************************************************************************)
C8_AsStated ==
    [][\A query \in ExtQueries, ext \in ExtTexts :
          (Offending[ext] # <<>> /\ start_search(query, FALSE, ext, <<"A">>))
              => Rejected(ext)]_vars

(***************************************************************************)
(* C8: when the query is not blank, an extension input with a token that   *)
(* is not purely alphanumeric (after trimming and removing its dot prefix) *)
(* makes start_search report every offending token and start nothing: no   *)
(* thread, results and count kept, buttons as they were.                   *)
(***************************************************************************)
C8_InvalidExtensionsRejected ==
    [][\A query \in ExtQueries, ext \in ExtTexts :
          ( /\ Strip(query) # <<>>
            /\ Offending[ext] # <<>>
            /\ start_search(query, FALSE, ext, <<"A">>) )
              => Rejected(ext)]_vars

\* the warning lists two offending tokens while the results of the search
\* before are still shown
C8_Witness ==
    /\ Len(msgbox) >= 2
    /\ nsearch = 1
    /\ results_list # <<>>
    /\ result_count > 0
    /\ search_button /\ ~cancel_button

(***************************************************************************)
(* C9: a directory that cannot be listed is skipped without stopping the   *)
(* worker or the search: with roots A and Z, Z inaccessible, every match   *)
(* under A is emitted and the search completes normally.                   *)
(***************************************************************************)
C9_InaccessibleRootSkipped ==
    ( /\ search_path = <<"A", "Z">>
      /\ FinishedCount = 1
      /\ ~stop_event
      /\ ~PoolFailed )
    => /\ ExpectedMatches(search_path, filename, case_sensitive, allowed_exts)
              \subseteq Range(MatchArgs)
       /\ \A w \in Workers : wpc[w] = "done"

(***************************************************************************)
(* C10: the count reported at completion is the number of found_file       *)
(* signals delivered since the search started, and a tree without a        *)
(* matching file gives count 0 and no surfaced error.                      *)
(***************************************************************************)
C10_CountMatchesDelivered ==
    (FinishedHandled /\ status_label.text = "Search finished:") =>
        /\ status_label.n = Len(MatchArgs)
        /\ results_list = MatchArgs
        /\ ExpectedMatches(search_path, filename, case_sensitive,
                           allowed_exts) = {}
              => /\ status_label.n = 0
                 /\ results_list = <<>>

(***************************************************************************)
(* C11: repeated uncancelled searches with the same request over the same  *)
(* tree return the same set of paths under every interleaving: every       *)
(* uncancelled search returns one set, the files below its roots that the  *)
(* request asks for, which is the set the run returns in which every       *)
(* directory is listed.                                                    *)
(***************************************************************************)
C11_RepeatableResults ==
    (FinishedCount = 1 /\ ~stop_event /\ ~PoolFailed) =>
        Range(MatchArgs) = ExpectedMatches(search_path, filename,
                                           case_sensitive, allowed_exts)

(***************************************************************************)
(* C12: a fatal condition (the pool cannot start) is surfaced as a         *)
(* terminal error event in place of the normal completion: finished is not *)
(* emitted for that search and the error is not sent on found_file.        *)
(***************************************************************************)
C12_FatalSurfacedAsError ==
    /\ \A i \in Emissions("found_file") : emitted[i].arg # ErrorText
    /\ (PoolFailed /\ tpc = "done") => FinishedCount = 0

\* the queries that are empty after trimming
BlankQueries == {query \in QueryTexts : Strip(query) = <<>>}

(***************************************************************************)
(* C13: a search is never started with an empty query: start_search with a *)
(* query that is empty after trimming creates no thread and changes no     *)
(* state, so the query of every search that runs is non-empty.             *)
(***************************************************************************)
C13_NoSearchWithoutQuery ==
    /\ [](nsearch > 0 => (filename # <<>> /\ Strip(filename) = filename))
    /\ [][search_button =>
            \/ UNCHANGED <<appVars, reqVars, stop_event, runVars, emitted,
                           observed, cancel_calls, late>>
            \/ \A query \in BlankQueries, cs \in BOOLEAN, ext \in ExtChoices,
                  roots \in RootChoices :
                    ~start_search(query, cs, ext, roots)]_vars

\* Search was clicked with a blank query while the results of a finished
\* search were shown, and they still are
C13_Witness ==
    /\ click = "ignored"
    /\ nsearch = 1
    /\ tpc = "done"
    /\ results_list # <<>>
    /\ status_label.text = "Search finished:"

\* the filter an extension input asks for: its tokens in lower case, as a set
ClaimFilter == [text \in FilterTexts |->
                   {Lower(t) : t \in Range(ClaimTokens(text))}]

(***************************************************************************)
(* C14: the filter a search is started with holds only lowercase tokens    *)
(* without a leading dot, and it is the set of the input's tokens in lower *)
(* case, so that inputs differing only in letter case, dot prefix,         *)
(* surrounding blanks or empty tokens give the same filter; a blank input  *)
(* gives no filter.                                                        *)
(***************************************************************************)
C14_FilterNormalised ==
    [][nsearch' = nsearch + 1 =>
          /\ \A x \in allowed_exts' :
                 x # <<>> /\ Head(x) # "." /\ Lower(x) = x
          /\ \A ext \in FilterTexts :
                 \/ /\ allowed_exts' = ClaimFilter[ext]
                    /\ Strip(ext) = <<>> => allowed_exts' = NoSet
                 \/ ~start_search(<<"r">>, FALSE, ext, <<"A">>)]_vars

\* a second search ran with the filter {t} and returned r.T
C14_Witness ==
    /\ nsearch = 2
    /\ allowed_exts = {<<"t">>}
    /\ FinishedCount = 1
    /\ MatchArgs = <<"A/r.T">>

\* the number of sentinels waiting in a queue
Sentinels(q) == Cardinality({i \in 1..Len(q) : q[i] = None})

(***************************************************************************)
(* C15: on concluding completion or on cancellation the coordinator pushes *)
(* exactly one sentinel per worker, NumWorkers in all, then waits: it      *)
(* leaves the wait only when every worker has exited, and no worker is     *)
(* running when finished has been emitted.                                 *)
(***************************************************************************)
C15_SentinelPerWorkerThenWait ==
    /\ [](FinishedCount = 1 => \A w \in Workers : ~Active(w))
    /\ [][nsearch' = nsearch =>
            /\ Sentinels(dir_queue') > Sentinels(dir_queue) =>
                  /\ tpc = "sentinels" /\ ti < NumWorkers /\ ti' = ti + 1
                  /\ Sentinels(dir_queue') = Sentinels(dir_queue) + 1
            /\ (tpc = "sentinels" /\ tpc' = tpc /\ ti' = ti) =>
                  Sentinels(dir_queue') <= Sentinels(dir_queue)
            /\ (tpc # "sentinels" /\ tpc' = "sentinels") =>
                  tpc \in {"poll", "recheck"} /\ ti' = 0
            /\ (tpc = "sentinels" /\ tpc' # "sentinels") =>
                  tpc' = "wait" /\ ti' = NumWorkers
            /\ (tpc = "wait" /\ tpc' # "wait") =>
                  \A w \in Workers : wpc[w] = "done"]_vars

\* a cancelled search has completed; its workers left on the stop event and
\* the sentinels, one per worker, are still in the queue
C15_Witness ==
    /\ stop_event
    /\ FinishedCount = 1
    /\ ~PoolFailed
    /\ Sentinels(dir_queue) = NumWorkers
    /\ \A w \in Workers : wpc[w] = "done"

C17_ConcludesOnTwoEmptyChecks ==
    [][nsearch' = nsearch =>
          /\ (tpc # "sentinels" /\ tpc' = "sentinels") =>
                \/ tpc = "poll" /\ stop_event
                \/ tpc = "recheck" /\ dir_queue = <<>>
          /\ (tpc # "recheck" /\ tpc' = "recheck") =>
                tpc = "poll" /\ ~stop_event /\ dir_queue = <<>>
          /\ (tpc = "poll" /\ ~stop_event /\ dir_queue # <<>>) =>
                tpc' = "poll"
          /\ (tpc = "recheck" /\ dir_queue # <<>> /\ tpc' # "recheck") =>
                tpc' = "poll"]_vars

\* the first check found the queue empty, and by the time of the re-check a
\* worker has queued a directory
C17_Witness ==
    /\ tpc = "recheck"
    /\ ~stop_event
    /\ DirectoryQueued

(***************************************************************************)
(* C18: in a search that is not cancelled, completion is concluded only at *)
(* quiescence: from the moment the detector pushes the sentinels no worker *)
(* is inside a listing and no directory is in the queue, so none is left   *)
(* unscanned behind the sentinels when the search ends.                    *)
(***************************************************************************)
C18_ConcludesAtQuiescence ==
    ( /\ ~stop_event
      /\ ~PoolFailed
      /\ tpc \in {"sentinels", "wait", "finally", "done"} )
    => /\ \A w \in Workers : wpc[w] # "scan"
       /\ ~DirectoryQueued

(***************************************************************************)
(* C19: cancellation takes effect at a worker's next checkpoint only: a    *)
(* listing in flight is carried on, a worker at its checkpoint with the    *)
(* stop event set exits, and a worker dequeues at most one directory with  *)
(* the stop event set before it exits, so what is emitted after the cancel *)
(* comes from a listing in flight or from that one directory.              *)
(***************************************************************************)
C19_CancelAtNextCheckpoint ==
    /\ [](\A w \in Workers : late[w] <= 1)
    /\ [][nsearch' = nsearch =>
            \A w \in Workers :
                /\ (stop_event /\ wpc[w] = "scan") =>
                      wpc'[w] \in {"scan", "check"}
                /\ (stop_event /\ wpc[w] = "check" /\ wpc'[w] # "check") =>
                      wpc'[w] = "done"]_vars

\* a worker dequeued one directory after the cancel and emitted a match
\* from it
C19_Witness ==
    \E w \in Workers :
        /\ late[w] = 1
        /\ \E i \in EmittedBy(w) : emitted[i].stop

\* worker w is about to get an exception that is neither PermissionError
\* nor FileNotFoundError: from os.scandir on the next item, or from
\* classifying the entry it is at
Unexpected(w) ==
    \/ /\ wpc[w] = "get"
       /\ dir_queue # <<>>
       /\ Head(dir_queue) # None
       /\ DirAccess(Head(dir_queue)) \notin (Skipped \cup {"ok"})
    \/ /\ wpc[w] = "scan"
       /\ CurrentEntry(w).kind = "broken"

PathsOfKind(kind) == {e.path : e \in {x \in AllEntries : x.kind = kind}}

(***************************************************************************)
(* C21: symbolic links are never followed.  An entry that is a symbolic    *)
(* link is neither put on the work queue nor emitted as a match: whatever  *)
(* is on the queue is a root, a real directory or a sentinel, whatever a   *)
(* worker emits is a real file, and the step of a worker over a symbolic   *)
(* link changes neither the queue nor the emissions.                       *)
(***************************************************************************)
C21_SymlinksNeverFollowed ==
    /\ [](/\ \A i \in 1..Len(dir_queue) :
                /\ dir_queue[i] \notin PathsOfKind("symlink")
                /\ \/ dir_queue[i] = None
                   \/ dir_queue[i] \in Range(search_path)
                   \/ dir_queue[i] \in PathsOfKind("dir")
          /\ \A w \in Workers :
                /\ wdir[w] \notin PathsOfKind("symlink")
                /\ \A i \in EmittedBy(w) :
                       emitted[i].arg \in PathsOfKind("file"))
    /\ [][nsearch' = nsearch =>
            \A w \in Workers :
                ( /\ wpc[w] = "scan"
                  /\ CurrentEntry(w).kind = "symlink"
                  /\ widx'[w] # widx[w] )
                    => /\ dir_queue' = dir_queue
                       /\ unfinished' = unfinished
                       /\ emitted' = emitted
                       /\ events' = events]_vars

\* a worker has stepped over the symbolic link A/x/r, whose name contains
\* the query, in a search without extension filter
C21_Witness ==
    /\ filename = <<"r">>
    /\ ~case_sensitive
    /\ allowed_exts = NoSet
    /\ \E w \in Workers :
          /\ wpc[w] = "scan"
          /\ wdir[w] = "A/x"
          /\ CurrentEntry(w).kind = "broken"
          /\ \E i \in EmittedBy(w) : emitted[i].arg = "A/x/Rm"

(***************************************************************************)
(* C22: at most one search runs at a time.  From a successful start_search *)
(* until the window has handled that search's finished signal the Search   *)
(* button is disabled, so no new search can be started, and a search is    *)
(* started only when the previous thread has returned and nothing of it is *)
(* left to deliver; the Cancel button is enabled only from a successful    *)
(* start to the first of cancel_search and on_search_finished.             *)
(***************************************************************************)
C22_OneSearchAtATime ==
    /\ [](nsearch > 0 => (search_button <=> FinishedHandled))
    /\ [](search_button =>
            /\ ~Running
            /\ \A w \in Workers : ~Active(w)
            /\ events = <<>>)
    /\ [](cancel_button <=>
            /\ nsearch > 0
            /\ cancel_calls = 0
            /\ ~FinishedHandled)
    /\ [][nsearch' # nsearch =>
            /\ nsearch' = nsearch + 1
            /\ search_button /\ ~search_button'
            /\ ~cancel_button /\ cancel_button'
            /\ ~Running
            /\ tpc' = "start"]_vars

\* the second search is running and has been cancelled: both buttons are
\* disabled until its finished signal is handled
C22_Witness ==
    /\ nsearch = 2
    /\ Running
    /\ \E w \in Workers : Active(w)
    /\ cancel_calls = 1
    /\ ~search_button
    /\ ~cancel_button

\* the arguments of the found_file signals the window has not handled yet
PendingArgs ==
    LET idx == SelectSeq([i \in 1..Len(events) |-> i],
                         LAMBDA i : events[i].sig = "found_file")
    IN  [k \in 1..Len(idx) |-> events[idx[k]].arg]
\* what the window shows and what is still to be delivered to it is what
\* the current thread has emitted on found_file, in that order, and comes
\* from no earlier thread
OnlyCurrentSearch ==
    /\ \A i \in 1..Len(events) : events[i].tid = nsearch
    /\ results_list \o PendingArgs = MatchArgs
    /\ result_count = Len(results_list)

(***************************************************************************)
(* C23: results never leak across searches.  Every found_file signal       *)
(* delivered to the window after start_search of a search was emitted by a *)
(* worker of that search, so the result list and the count shown for a     *)
(* search hold only that search's matches.                                 *)
(***************************************************************************)
C23_NoLeakAcrossSearches ==
    /\ OnlyCurrentSearch
    /\ \A i \in Emissions("found_file") : emitted[i].by \in Workers
    /\ \A k \in 1..Len(results_list) :
          results_list[k] \in
              ExpectedMatches(search_path, filename, case_sensitive,
                              allowed_exts)

\* the items workers have dequeued and are still processing: a directory
\* is held from dir_queue.get to the end of its listing
InProcess == Cardinality({w \in Workers : wpc[w] = "scan"})

(***************************************************************************)
(* C24: every item a worker dequeues, directory or sentinel, is marked     *)
(* done exactly once on every path, the skipped-directory and the          *)
(* unexpected-exception paths included, so the queue's unfinished-task     *)
(* count always equals the number of items queued plus the number of items *)
(* being processed.                                                        *)
(***************************************************************************)
C24_TaskDoneExactlyOnce ==
    unfinished = Len(dir_queue) + InProcess

====
